---------------------------- MODULE Spec2Model ----------------------------
(***************************************************************************)
(* Model of the explainable matching engine (matching_engine.py) and of    *)
(* the records it reads (models.py, schemas.py).                           *)
(*                                                                         *)
(* Numbers.  Python floats are modelled as exact rationals [n, d] (d > 0,  *)
(* lowest terms).  Weights, which the schemas give as decimals (0.6, 1.5), *)
(* are carried as integers in hundredths (60, 150).  Every value the       *)
(* engine returns through round(x, 2) is carried as an integer number of   *)
(* hundredths (80.1 is 8010); round is applied to the exact value, half to *)
(* even, as Python does for the value it holds.                            *)
(*                                                                         *)
(* Names.  matching_engine.py uses Skill and UUID without importing them;  *)
(* the model reads them as models.Skill and uuid.UUID.                     *)
(***************************************************************************)
EXTENDS Integers, Sequences, FiniteSets, TLC

VARIABLES candidates,     \* table candidates (with their CandidateSkill rows), in query order
          project,        \* the stored project, its configuration and requirement rows
          match_results,  \* table match_results
          pc,             \* position of the run_matching call in progress
          request,        \* arguments of the run_matching call in progress
          selected,       \* run_matching: candidates = query.all()
          results,        \* run_matching: the local list results
          cursor,         \* run_matching: how many results the ranking loop has ranked
          response,       \* what run_matching returned or raised
          lastMatch,      \* the last direct calculate_match call: its arguments and result
          explanation     \* what the last get_explanation_detail call returned or raised

vars == <<candidates, project, match_results, pc, request, selected, results,
          cursor, response, lastMatch, explanation>>

None == "None"

\* ------------------------------------------------------------ bounds
MaxReqs == 3
MaxCandidates == 3
MaxRuns == 2

\* ------------------------------------------------------------ arithmetic
RECURSIVE GCD(_, _)
GCD(a, b) == IF b = 0 THEN a ELSE GCD(b, a % b)

Abs(a) == IF a < 0 THEN -a ELSE a

Rat(n, d) ==
    LET g == GCD(Abs(n), d)
    IN  [n |-> n \div g, d |-> d \div g]

RatInt(i) == [n |-> i, d |-> 1]
\* over the least common denominator
RatAdd(x, y) ==
    LET g == GCD(x.d, y.d)
    IN  Rat(x.n * (y.d \div g) + y.n * (x.d \div g), (x.d \div g) * y.d)
RatScale(x, k, den) == Rat(x.n * k, x.d * den)
RatLt(x, y) == x.n * y.d < y.n * x.d
RatLe(x, y) == x.n * y.d <= y.n * x.d
RatMin(x, y) == IF RatLe(x, y) THEN x ELSE y

\* round(x * 10^k) for scale = 10^k, half to even, x >= 0
RoundScaled(x, scale) ==
    LET whole == x.n \div x.d
        num   == (x.n % x.d) * scale
        q     == num \div x.d
        r2    == 2 * (num % x.d)
        base  == whole * scale + q
    IN  IF r2 > x.d THEN base + 1
        ELSE IF r2 < x.d THEN base
        ELSE IF base % 2 = 0 THEN base ELSE base + 1

\* round(x, 2), in hundredths
Round2(x) == RoundScaled(x, 100)

Min(a, b) == IF a <= b THEN a ELSE b

RECURSIVE SumSeq(_)
SumSeq(s) == IF s = <<>> THEN 0 ELSE Head(s) + SumSeq(Tail(s))

\* sorted(items, key=..., reverse=True) / list.sort(key=..., reverse=True):
\* a stable sort, descending by key; s is a sequence of [key, val].
RECURSIVE InsertDesc(_, _)
InsertDesc(s, e) ==
    IF s = <<>> THEN <<e>>
    ELSE IF Head(s).key >= e.key THEN <<Head(s)>> \o InsertDesc(Tail(s), e)
    ELSE <<e>> \o s

RECURSIVE SortedDesc(_)
SortedDesc(s) ==
    IF s = <<>> THEN <<>>
    ELSE InsertDesc(SortedDesc(SubSeq(s, 1, Len(s) - 1)), s[Len(s)])

\* the same with equal keys put in reverse order (not stable)
RECURSIVE InsertDescUnstable(_, _)
InsertDescUnstable(s, e) ==
    IF s = <<>> THEN <<e>>
    ELSE IF Head(s).key > e.key THEN <<Head(s)>> \o InsertDescUnstable(Tail(s), e)
    ELSE <<e>> \o s

RECURSIVE SortedDescUnstable(_)
SortedDescUnstable(s) ==
    IF s = <<>> THEN <<>>
    ELSE InsertDescUnstable(SortedDescUnstable(SubSeq(s, 1, Len(s) - 1)), s[Len(s)])

Vals(s) == [i \in 1..Len(s) |-> s[i].val]

\* ------------------------------------------------------------ records
SkillNames == {"Python", "ML", "Communication", "Leadership"}

\* no CandidateSkill row for (candidate, skill)
NoRecord == -1

Genders == {None, "male", "female", "non_binary", "prefer_not_to_say"}
SocioeconomicStatuses == {None, "low", "medium", "high"}

WeightKeys == {"technical", "communication", "leadership", "experience"}

DefaultWeight(k) ==
    CASE k = "technical" -> 60
      [] k = "communication" -> 20
      [] k = "leadership" -> 10
      [] k = "experience" -> 10

\* weights.get(k, default)
WeightGet(weights, k) ==
    IF k \in DOMAIN weights THEN weights[k] ELSE DefaultWeight(k)


\* FairnessConfig: the two fields the engine reads
FairnessConfig(sb, gp) == [socioeconomic_boost |-> sb, gender_parity |-> gp]

\* ------------------------------------------------------------ the engine
\* project.required_skills, in relationship order
required_skills(p) == [i \in 1..Len(p.project_skills) |-> p.project_skills[i].skill]

\* db.query(project_skills).filter(project_id, skill).first(): <<row>> or <<>>
ProjectSkillRow(p, skill) ==
    SelectSeq(p.project_skills, LAMBDA r : r.skill = skill)

\* db.query(CandidateSkill).filter(candidate_id, skill).first(): <<level>> or <<>>
CandidateSkillRow(c, skill) ==
    IF c.prof[skill] = NoRecord THEN <<>> ELSE <<c.prof[skill]>>

SeqRange(s) == {s[i] : i \in 1..Len(s)}

_build_candidate_vector(c, p) ==
    [name \in SeqRange(required_skills(p)) |->
        LET proficiency == CandidateSkillRow(c, name)
        IN  IF proficiency # <<>> THEN proficiency[1] ELSE 0]

_build_requirement_vector(p) ==
    [name \in SeqRange(required_skills(p)) |->
        LET req_level == ProjectSkillRow(p, name)
        IN  IF req_level # <<>> THEN req_level[1].required_level ELSE 80]

\* the per-skill score without the cap at 100
SkillScoreUncapped(actual_level, required_level) ==
    IF required_level > 0
    THEN Rat(actual_level * 100, required_level)
    ELSE IF actual_level > 0 THEN RatInt(100) ELSE RatInt(0)

\* the per-skill score with 100 for every skill required at level 0
SkillScoreNothingRequired(actual_level, required_level) ==
    IF required_level > 0
    THEN RatMin(RatInt(100), Rat(actual_level * 100, required_level))
    ELSE RatInt(100)

\* min(100, (actual_level / required_level) * 100), or 100 / 0 when nothing is required
SkillScore(actual_level, required_level) ==
    IF required_level > 0
    THEN RatMin(RatInt(100), Rat(actual_level * 100, required_level))
    ELSE IF actual_level > 0 THEN RatInt(100) ELSE RatInt(0)

RECURSIVE RatSum(_)
RatSum(s) == IF s = <<>> THEN RatInt(0) ELSE RatAdd(Head(s), RatSum(Tail(s)))

\* np.average(scores, weights=weights): [error, value]
np_average(scores, weights) ==
    LET total == SumSeq(weights)
    IN  IF total = 0
        THEN [error |-> "ZeroDivisionError", value |-> RatInt(0)]
        ELSE [error |-> None,
              value |-> LET acc == RatSum([i \in 1..Len(scores) |->
                                              RatScale(scores[i], weights[i], 1)])
                        IN  Rat(acc.n, acc.d * total)]

_calculate_technical_score(candidate_vector, required_vector, p) ==
    LET names   == required_skills(p)
        scores  == [i \in 1..Len(names) |->
                       SkillScore(candidate_vector[names[i]], required_vector[names[i]])]
        weights == [i \in 1..Len(names) |->
                       LET skill_record == ProjectSkillRow(p, names[i])
                       IN  IF skill_record # <<>> THEN skill_record[1].weight ELSE 100]
    IN  IF scores = <<>>
        THEN [error |-> None, value |-> RatInt(0)]
        ELSE np_average(scores, weights)

_get_skill_score(c, skill_name) ==
    LET skill_record == IF skill_name \in SkillNames
                        THEN CandidateSkillRow(c, skill_name) ELSE <<>>
    IN  IF skill_record # <<>> THEN skill_record[1] ELSE 0

\* the experience score with the gender adjustment counted into it
ExperienceScoreGenderAdjusted(c) ==
    Min(100, c.years_experience * 15 + (IF c.gender \in {"female", "non_binary"} THEN 2 ELSE 0))

experience_score(c) == Min(100, c.years_experience * 15)

\* the weighted raw score of calculate_match
raw_score(technical, communication, leadership, experience, weights) ==
    RatAdd(RatScale(technical, WeightGet(weights, "technical"), 100),
           Rat(communication * WeightGet(weights, "communication")
               + leadership * WeightGet(weights, "leadership")
               + experience * WeightGet(weights, "experience"), 100))

SesMessage(ses) ==
    <<"Socioeconomic opportunity boost applied (+3%) for candidate from ", ses,
      " SES background">>
GenderMessage(gender) ==
    <<"Gender parity adjustment (+2%) applied to promote diversity in ", gender,
      " representation">>
EarlyCareerMessage ==
    <<"Early career potential boost (+1%) for high-performing junior candidate">>

\* the three rules chained with elif: only the first that applies is counted
ApplyFairnessFirstOnly(c, raw, config) ==
    LET ses    == config.socioeconomic_boost /\ c.socioeconomic_status = "low"
        gender == config.gender_parity /\ c.gender \in {"female", "non_binary"}
        early  == c.years_experience < 3 /\ RatLt(RatInt(70), raw)
    IN  IF ses THEN [bonus |-> 3, mitigations |-> <<SesMessage(c.socioeconomic_status)>>]
        ELSE IF gender THEN [bonus |-> 2, mitigations |-> <<GenderMessage(c.gender)>>]
        ELSE IF early THEN [bonus |-> 1, mitigations |-> <<EarlyCareerMessage>>]
        ELSE [bonus |-> 0, mitigations |-> <<>>]

\* the socioeconomic rule applied without reading config.socioeconomic_boost
ApplyFairnessBoostUngated(c, raw, config) ==
    LET ses    == c.socioeconomic_status = "low"
        gender == config.gender_parity /\ c.gender \in {"female", "non_binary"}
        early  == c.years_experience < 3 /\ RatLt(RatInt(70), raw)
        b1 == IF ses THEN 3 ELSE 0
        m1 == IF ses THEN <<SesMessage(c.socioeconomic_status)>> ELSE <<>>
        b2 == IF gender THEN b1 + 2 ELSE b1
        m2 == IF gender THEN Append(m1, GenderMessage(c.gender)) ELSE m1
        b3 == IF early THEN b2 + 1 ELSE b2
        m3 == IF early THEN Append(m2, EarlyCareerMessage) ELSE m2
    IN  [bonus |-> b3, mitigations |-> m3]

\* each message put at the head of the list: the last rule's message comes first
ApplyFairnessPrepend(c, raw, config) ==
    LET ses    == config.socioeconomic_boost /\ c.socioeconomic_status = "low"
        gender == config.gender_parity /\ c.gender \in {"female", "non_binary"}
        early  == c.years_experience < 3 /\ RatLt(RatInt(70), raw)
        b1 == IF ses THEN 3 ELSE 0
        m1 == IF ses THEN <<SesMessage(c.socioeconomic_status)>> ELSE <<>>
        b2 == IF gender THEN b1 + 2 ELSE b1
        m2 == IF gender THEN <<GenderMessage(c.gender)>> \o m1 ELSE m1
        b3 == IF early THEN b2 + 1 ELSE b2
        m3 == IF early THEN <<EarlyCareerMessage>> \o m2 ELSE m2
    IN  [bonus |-> b3, mitigations |-> m3]

_apply_fairness_constraints(c, raw, config) ==
    LET ses    == config.socioeconomic_boost /\ c.socioeconomic_status # None
                  /\ c.socioeconomic_status = "low"
        gender == config.gender_parity /\ c.gender # None
                  /\ c.gender \in {"female", "non_binary"}
        early  == c.years_experience < 3 /\ RatLt(RatInt(70), raw)
        b1 == IF ses THEN 3 ELSE 0
        m1 == IF ses THEN <<SesMessage(c.socioeconomic_status)>> ELSE <<>>
        b2 == IF gender THEN b1 + 2 ELSE b1
        m2 == IF gender THEN Append(m1, GenderMessage(c.gender)) ELSE m1
        b3 == IF early THEN b2 + 1 ELSE b2
        m3 == IF early THEN Append(m2, EarlyCareerMessage) ELSE m2
    IN  [bonus |-> b3, mitigations |-> m3]

\* the gaps sorted by a sort that is not stable
SortGapsUnstable(gaps) ==
    Vals(SortedDescUnstable([i \in 1..Len(gaps) |-> [key |-> gaps[i].gap, val |-> gaps[i]]]))

\* sorted(gaps, key=lambda x: x.gap, reverse=True)
sort_gaps(gaps) ==
    Vals(SortedDesc([i \in 1..Len(gaps) |-> [key |-> gaps[i].gap, val |-> gaps[i]]]))

\* the test against the default level 80 in place of the required level
IsGapBelowDefault(actual_level, required_level) == actual_level < 80

\* the test with <= for <
IsGapOrEqual(actual_level, required_level) == actual_level <= required_level

\* if actual_level < required_level
IsGap(actual_level, required_level) == actual_level < required_level

RECURSIVE GapsFrom(_, _, _)
GapsFrom(c, p, names) ==
    IF names = <<>> THEN <<>>
    ELSE LET skill          == Head(names)
             required       == ProjectSkillRow(p, skill)
             required_level == IF required # <<>> THEN required[1].required_level ELSE 80
             actual         == CandidateSkillRow(c, skill)
             actual_level   == IF actual # <<>> THEN actual[1] ELSE 0
         IN  (IF IsGap(actual_level, required_level)
              THEN <<[skill |-> skill, required |-> required_level,
                      actual |-> actual_level, gap |-> required_level - actual_level]>>
              ELSE <<>>) \o GapsFrom(c, p, Tail(names))

_calculate_skill_gaps(c, p) == sort_gaps(GapsFrom(c, p, required_skills(p)))

\* f"{x:.1f}", in tenths
Format1(x) == RoundScaled(x, 10)

ExplanationItem(type, category, detail, impact) ==
    [type |-> type, category |-> category, detail |-> detail, impact |-> impact]

\* the bands read as 85 and above, 70 to 84, below 70: a score between 84 and
\* 85 falls in none of the first two
TechnicalEntryWholeBands(technical) ==
    IF RatLe(RatInt(85), technical)
    THEN ExplanationItem("strength", "Technical Excellence", <<Format1(technical)>>, "High")
    ELSE IF RatLe(RatInt(70), technical) /\ RatLe(technical, RatInt(84))
    THEN ExplanationItem("neutral", "Technical Competency", <<Format1(technical)>>, "Medium")
    ELSE ExplanationItem("weakness", "Technical Gap", <<Format1(technical)>>, "Medium")

\* the technical entry of lines 257-282: if / elif / else
technical_entry(technical) ==
    IF RatLe(RatInt(85), technical)
    THEN ExplanationItem("strength", "Technical Excellence", <<Format1(technical)>>, "High")
    ELSE IF RatLe(RatInt(70), technical)
    THEN ExplanationItem("neutral", "Technical Competency", <<Format1(technical)>>, "Medium")
    ELSE ExplanationItem("weakness", "Technical Gap", <<Format1(technical)>>, "Medium")

\* one fairness entry for each mitigation message
FairnessEntryPerMitigation(fairness_bonus, mitigations) ==
    [i \in 1..Len(mitigations) |->
        ExplanationItem("fairness", "Equity Adjustment", <<fairness_bonus>>, "Adjustment")]

\* the gap entry written about the last element of the gap list
GapEntryOfLast(gaps) ==
    IF gaps # <<>>
    THEN <<ExplanationItem("gap", "Development Opportunity",
                           <<gaps[Len(gaps)].skill, gaps[Len(gaps)].actual,
                             gaps[Len(gaps)].required>>, "Low")>>
    ELSE <<>>

\* the gap entry of lines 302-311: top_gap = gaps[0]
gap_entries(gaps) ==
    IF gaps # <<>>
    THEN <<ExplanationItem("gap", "Development Opportunity",
                           <<gaps[1].skill, gaps[1].actual, gaps[1].required>>, "Low")>>
    ELSE <<>>

\* the fairness entry of lines 313-321
fairness_entries(fairness_bonus, mitigations) ==
    IF fairness_bonus > 0
    THEN <<ExplanationItem("fairness", "Equity Adjustment", <<fairness_bonus>>, "Adjustment")>>
    ELSE <<>>

_generate_explanations(c, technical, communication, leadership, experience, gaps, fairness_bonus, mitigations) ==
    LET tech == <<technical_entry(technical)>>
        comm == IF communication >= 85
                THEN <<ExplanationItem("strength", "Communication", <<>>, "High")>>
                ELSE <<>>
        lead == IF leadership >= 80
                THEN <<ExplanationItem("strength", "Leadership", <<>>, "Medium")>>
                ELSE <<>>
        gap  == gap_entries(gaps)
        fair == fairness_entries(fairness_bonus, mitigations)
        expr == IF c.years_experience >= 5
                THEN <<ExplanationItem("strength", "Experience",
                                       <<c.years_experience>>, "Medium")>>
                ELSE <<>>
    IN  tech \o comm \o lead \o gap \o fair \o expr

\* custom_weights or project.weights_config; an override is <<>> (None) or <<dict>>
ActiveWeights(p, custom_weights) ==
    IF custom_weights # <<>> /\ DOMAIN custom_weights[1] # {}
    THEN custom_weights[1] ELSE p.weights_config

\* custom_fairness or FairnessConfig(**project.fairness_config)
ActiveFairness(p, custom_fairness) ==
    IF custom_fairness # <<>> THEN custom_fairness[1]
    ELSE FairnessConfig(p.fairness_config.socioeconomic_boost,
                        p.fairness_config.gender_parity)

\* raw_score + fairness_bonus without the cap
FinalScoreUncapped(raw, fairness_bonus) == RatAdd(raw, RatInt(fairness_bonus))

\* min(100.0, raw_score + fairness_bonus)
final_score(raw, fairness_bonus) == RatMin(RatInt(100), RatAdd(raw, RatInt(fairness_bonus)))

RaisedMatch(err) == [error |-> err]

\* calculate_match, lines 35-72: the values of its local variables
MatchLocals(c, p, custom_weights, custom_fairness) ==
    LET weights          == ActiveWeights(p, custom_weights)
        fairness         == ActiveFairness(p, custom_fairness)
        candidate_vector == _build_candidate_vector(c, p)
        required_vector  == _build_requirement_vector(p)
        technical        == _calculate_technical_score(candidate_vector, required_vector, p)
        communication    == _get_skill_score(c, "Communication")
        leadership       == _get_skill_score(c, "Leadership")
        experience       == experience_score(c)
        raw              == raw_score(technical.value, communication, leadership,
                                      experience, weights)
        adj              == _apply_fairness_constraints(c, raw, fairness)
        skill_gaps       == _calculate_skill_gaps(c, p)
    IN  IF technical.error # None THEN RaisedMatch(technical.error)
        ELSE [error               |-> None,
              weights             |-> weights,
              fairness            |-> fairness,
              technical_score     |-> technical.value,
              communication_score |-> communication,
              leadership_score    |-> leadership,
              experience_score    |-> experience,
              raw_score           |-> raw,
              fairness_bonus      |-> adj.bonus,
              bias_mitigations    |-> adj.mitigations,
              final_score         |-> final_score(raw, adj.bonus),
              skill_gaps          |-> skill_gaps,
              explanations        |-> _generate_explanations(c, technical.value,
                                          communication, leadership, experience,
                                          skill_gaps, adj.bonus, adj.mitigations)]

\* calculate_match, lines 76-88: the returned dict (scores in hundredths), or
\* the error raised; processing_time_ms is left out
calculate_match(c, p, custom_weights, custom_fairness) ==
    LET l == MatchLocals(c, p, custom_weights, custom_fairness)
    IN  IF l.error # None THEN RaisedMatch(l.error)
        ELSE [error                   |-> None,
              raw_score               |-> Round2(l.raw_score),
              final_score             |-> Round2(l.final_score),
              fairness_adjustment     |-> 100 * l.fairness_bonus,
              technical_score         |-> Round2(l.technical_score),
              communication_score     |-> 100 * l.communication_score,
              leadership_score        |-> 100 * l.leadership_score,
              experience_score        |-> 100 * l.experience_score,
              skill_gaps              |-> l.skill_gaps,
              explanations            |-> l.explanations,
              bias_mitigation_applied |-> l.bias_mitigations]

\* ------------------------------------------------------------ cohort metrics
RatSub(x, y) == RatAdd(x, [n |-> -y.n, d |-> y.d])
RatMul(x, y) == Rat(x.n * y.n, x.d * y.d)

\* floor of the square root
RECURSIVE ISqrt(_)
ISqrt(n) ==
    IF n < 2 THEN n
    ELSE LET s == 2 * ISqrt(n \div 4)
         IN  IF (s + 1) * (s + 1) <= n THEN s + 1 ELSE s

IsSquare(n) == ISqrt(n) * ISqrt(n) = n

\* round(10 * sqrt(v)), v >= 0
RoundSqrt10(v) ==
    IF IsSquare(v.n) /\ IsSquare(v.d)
    THEN RoundScaled(Rat(10 * ISqrt(v.n), ISqrt(v.d)), 1)
    ELSE LET q   == 100 * (v.n \div v.d) + (100 * (v.n % v.d)) \div v.d
             rem == (100 * (v.n % v.d)) % v.d
             f   == ISqrt(q)
         IN  IF q > f * f + f \/ (q = f * f + f /\ 4 * rem >= v.d) THEN f + 1 ELSE f

\* np.mean(scores)
np_mean(scores) == Rat(SumSeq(scores), Len(scores))

RECURSIVE SetToSeq(_)
SetToSeq(S) ==
    IF S = {} THEN <<>>
    ELSE LET x == CHOOSE y \in S : TRUE IN <<x>> \o SetToSeq(S \ {x})

\* round(np.std(values), 3) for values in hundredths of a point, in thousandths
np_std(values) ==
    LET k    == Len(values)
        mean == LET t == RatSum(values) IN Rat(t.n, t.d * k)
        sq   == [i \in 1..k |-> RatMul(RatSub(values[i], mean), RatSub(values[i], mean))]
        var  == LET t == RatSum(sq) IN Rat(t.n, t.d * k)
    IN  RoundSqrt10(var)

\* the dict {g: np.mean(scores)} over the values of a demographic field
GroupAverages(rs, field) ==
    LET groups == {rs[i].candidate[field] : i \in 1..Len(rs)} \ {None}
    IN  [g \in groups |->
            np_mean([j \in 1..Len(SelectSeq(rs, LAMBDA r : r.candidate[field] = g)) |->
                        SelectSeq(rs, LAMBDA r : r.candidate[field] = g)[j].final_score])]

\* the ratio with 0.0 for the case of no positive average
GenderParityZeroDefault(min_avg, max_avg) ==
    IF max_avg.n > 0
    THEN RoundScaled(Rat(min_avg.n * max_avg.d, min_avg.d * max_avg.n), 1000)
    ELSE 0

\* round(min_avg / max_avg, 3) if max_avg > 0 else 1.0, in thousandths
gender_parity_ratio(min_avg, max_avg) ==
    IF max_avg.n > 0
    THEN RoundScaled(Rat(min_avg.n * max_avg.d, min_avg.d * max_avg.n), 1000)
    ELSE 1000

\* the score with 1 for the parity that was not computed
OverallFairnessDefaultOne(metrics) ==
    1000 - (IF "socioeconomic_parity" \in DOMAIN metrics
            THEN metrics["socioeconomic_parity"] ELSE 1000)

\* round(1 - metrics.get("socioeconomic_parity", 0), 3), in thousandths
overall_fairness_score(metrics) ==
    1000 - (IF "socioeconomic_parity" \in DOMAIN metrics
            THEN metrics["socioeconomic_parity"] ELSE 0)

\* lines 416-451. rs: the (candidate, match.final_score) of results; the metrics
\* dict, a function from its keys to thousandths
cohort_metrics(rs) ==
    LET gender_avg == GroupAverages(rs, "gender")
        gender_vals == {gender_avg[g] : g \in DOMAIN gender_avg}
        max_avg == CHOOSE x \in gender_vals : \A y \in gender_vals : RatLe(y, x)
        min_avg == CHOOSE x \in gender_vals : \A y \in gender_vals : RatLe(x, y)
        gender_part ==
            IF Cardinality(DOMAIN gender_avg) > 1
            THEN "gender_parity_ratio" :> gender_parity_ratio(min_avg, max_avg)
            ELSE <<>>
        ses_avg == GroupAverages(rs, "socioeconomic_status")
        ses_seq == SetToSeq(DOMAIN ses_avg)
        ses_part ==
            IF DOMAIN ses_avg # {}
            THEN "socioeconomic_parity" :>
                    np_std([i \in 1..Len(ses_seq) |-> ses_avg[ses_seq[i]]])
            ELSE <<>>
    IN  gender_part @@ ses_part
        @@ ("overall_fairness_score" :> overall_fairness_score(gender_part @@ ses_part))

\* the metrics computed without the empty-results guard
FairnessMetricsUnguarded(rs) == cohort_metrics(rs)

\* lines 413-414: if not results: return {}
_calculate_fairness_metrics(rs) == IF rs = <<>> THEN <<>> ELSE cohort_metrics(rs)

\* ------------------------------------------------------------ stored records
Candidate(id, demo, prof, active) ==
    [id |-> id, gender |-> demo.gender, ethnicity |-> demo.ethnicity,
     socioeconomic_status |-> demo.socioeconomic_status,
     years_experience |-> demo.years_experience, is_active |-> active, prof |-> prof]

Project(rows, weights_config, fairness_config) ==
    [id |-> 1, project_skills |-> rows, weights_config |-> weights_config,
     fairness_config |-> fairness_config]

Demo(g, e, s, y) ==
    [gender |-> g, ethnicity |-> e, socioeconomic_status |-> s, years_experience |-> y]

Prof(py, ml, comm, lead) ==
    [Python |-> py, ML |-> ml, Communication |-> comm, Leadership |-> lead]

Row(skill, level, weight) == [skill |-> skill, required_level |-> level, weight |-> weight]

AllDemo ==
    [gender : Genders, ethnicity : {None, "asian"},
     socioeconomic_status : SocioeconomicStatuses, years_experience : {2, 3, 7}]

FewDemo ==
    {Demo("female", None, "low", 2), Demo(None, None, None, 7),
     Demo("male", "asian", "high", 0)}

AllProf ==
    [Python : {NoRecord, 76, 95}, ML : {NoRecord, 88},
     Communication : {NoRecord, 78, 90}, Leadership : {NoRecord, 85}]

FewProf ==
    {Prof(95, 88, 78, NoRecord), Prof(95, 88, 90, 85), Prof(5, NoRecord, NoRecord, NoRecord),
     Prof(76, NoRecord, 90, 85)}

\* requirement rows a project may hold: (required_level, weight in hundredths)
ReqRows ==
    {Row("Python", 90, 150), Row("Python", 0, 100), Row("ML", 85, 200),
     Row("Communication", 70, 100), Row("Communication", 70, 0),
     Row("Leadership", 80, 100)}

\* one row per skill (ProjectRequirement is unique per (project, skill))
DistinctSkills(rows) ==
    \A i, j \in 1..Len(rows) : rows[i].skill = rows[j].skill => i = j

ReqSeqs ==
    UNION {{rows \in [1..n -> ReqRows] : DistinctSkills(rows)} : n \in 0..MaxReqs}

ScenarioRows ==
    <<Row("Python", 90, 150), Row("ML", 85, 200), Row("Communication", 70, 100)>>

DefaultWeights == [k \in WeightKeys |-> DefaultWeight(k)]
FullWeights    == [k \in WeightKeys |-> 100]

FairnessConfigs == {FairnessConfig(sb, gp) : sb \in BOOLEAN, gp \in BOOLEAN}

\* the (candidate, project) pairs scored directly: every demographic
\* combination against a few skill profiles; every skill profile and
\* requirement list against a few demographic combinations; and weights of 1.0
\* each against a few skill profiles and every requirement list
ScoreInputs ==
    {<<Candidate(1, d, pr, TRUE), Project(rows, DefaultWeights, f)>> :
        d \in AllDemo, pr \in FewProf, rows \in {<<>>, ScenarioRows}, f \in FairnessConfigs}
    \cup
    {<<Candidate(1, d, pr, TRUE), Project(rows, DefaultWeights, FairnessConfig(TRUE, TRUE))>> :
        d \in FewDemo, pr \in AllProf, rows \in ReqSeqs}
    \cup
    {<<Candidate(1, d, pr, TRUE), Project(rows, FullWeights, FairnessConfig(TRUE, TRUE))>> :
        d \in FewDemo, pr \in FewProf, rows \in ReqSeqs}

\* overrides a caller may pass: <<>> is None
WeightOverrides   == {<<>>, << <<>> >>, << [technical |-> 100] >>}
FairnessOverrides == {<<>>, <<FairnessConfig(FALSE, FALSE)>>}

\* ------------------------------------------------------------ direct scoring
IdleRun ==
    /\ match_results = <<>>
    /\ pc = "idle"
    /\ request = <<>>
    /\ selected = <<>>
    /\ results = <<>>
    /\ cursor = 0
    /\ response = <<>>
    /\ explanation = <<>>

InitScore ==
    /\ \E in \in ScoreInputs :
          /\ candidates = <<in[1]>>
          /\ project = <<in[2]>>
    /\ IdleRun
    /\ lastMatch = <<>>

\* engine.calculate_match(candidate, project, custom_weights, custom_fairness)
CalculateMatch ==
    /\ pc = "idle"
    /\ lastMatch = <<>>
    /\ project # <<>>
    /\ \E i \in 1..Len(candidates), cw \in WeightOverrides, cf \in FairnessOverrides :
          lastMatch' = <<[candidate        |-> candidates[i],
                          project          |-> project[1],
                          custom_weights   |-> cw,
                          custom_fairness  |-> cf,
                          locals           |-> MatchLocals(candidates[i], project[1],
                                                           cw, cf),
                          result           |-> calculate_match(candidates[i], project[1],
                                                               cw, cf)]>>
    /\ UNCHANGED <<candidates, project, match_results, pc, request, selected, results,
                   cursor, response, explanation>>

NextScore == CalculateMatch

SpecScore == InitScore /\ [][NextScore]_vars


\* ------------------------------------------------------------ run_matching
VERSION == "2.0.0"

\* MatchResult.rank before the ranking loop sets it (the column is nullable)
NullRank == 0

\* the candidates a run may find stored
RunProfiles ==
    {Candidate(0, Demo("non_binary", None, "low", 3), Prof(95, 88, 78, NoRecord), TRUE),
     Candidate(0, Demo("male", "asian", "high", 7), Prof(95, 88, 90, 85), TRUE),
     Candidate(0, Demo("female", None, "low", 2), Prof(5, NoRecord, NoRecord, NoRecord), TRUE),
     Candidate(0, Demo("female", None, None, 2), Prof(95, 88, 90, 85), FALSE),
     Candidate(0, Demo(None, None, None, 0), Prof(76, NoRecord, 90, NoRecord), TRUE)}

CandidateTables ==
    UNION {{[i \in 1..n |-> [t[i] EXCEPT !.id = i]] : t \in [1..n -> RunProfiles]} :
              n \in 0..MaxCandidates}

ZeroWeights == [k \in WeightKeys |-> 0]

RunProjects ==
    {Project(ScenarioRows, DefaultWeights, FairnessConfig(TRUE, TRUE)),
     Project(ScenarioRows, ZeroWeights, FairnessConfig(TRUE, TRUE)),
     Project(<<Row("Communication", 70, 0)>>, DefaultWeights, FairnessConfig(TRUE, FALSE))}

\* MatchingRequest: candidate_ids is <<>> (None) or <<list>>
RunRequests ==
    {[project_id |-> 1, candidate_ids |-> <<>>, fairness_override |-> <<>>],
     [project_id |-> 1, candidate_ids |-> << <<>> >>, fairness_override |-> <<>>],
     [project_id |-> 1, candidate_ids |-> << <<2, 1>> >>,
      fairness_override |-> <<FairnessConfig(FALSE, FALSE)>>],
     [project_id |-> 2, candidate_ids |-> <<>>, fairness_override |-> <<>>]}

Init ==
    /\ candidates \in CandidateTables
    /\ \E p \in RunProjects : project = <<p>>
    /\ IdleRun
    /\ lastMatch = <<>>

RunsStarted == IF request = <<>> THEN 0 ELSE request[1].run

\* the lookup without its filter: the first project stored, whatever its id
FindProjectAny(project_id) == project

\* db.query(Project).filter(Project.id == project_id).first(): <<p>> or <<>>
FindProject(project_id) == SelectSeq(project, LAMBDA p : p.id = project_id)

\* query.all() of lines 351-355
SelectCandidates(candidate_ids) ==
    SelectSeq(candidates,
              LAMBDA c : /\ c.is_active
                         /\ (candidate_ids # <<>> /\ candidate_ids[1] # <<>>)
                               => c.id \in SeqRange(candidate_ids[1]))

\* the session is closed without a commit: objects added and not committed are dropped
Discard(rows) == SelectSeq(rows, LAMBDA m : m.stored # <<>>)

\* db.commit(): every row is stored as the session holds it
Commit(rows) == [i \in 1..Len(rows) |-> [rows[i] EXCEPT !.stored = <<rows[i].rank>>]]

\* run_matching, lines 344-355; the 404 is main.run_matching's
RunStart ==
    /\ pc = "idle"
    /\ RunsStarted < MaxRuns
    /\ \E r \in RunRequests :
          /\ request' = <<[run |-> RunsStarted + 1, project_id |-> r.project_id,
                           candidate_ids |-> r.candidate_ids,
                           fairness_override |-> r.fairness_override]>>
          /\ IF FindProject(r.project_id) = <<>>
             THEN /\ response' = <<[status |-> 404, error |-> "ValueError",
                                    detail |-> <<"Project ", r.project_id, " not found">>]>>
                  /\ UNCHANGED <<pc, selected>>
             ELSE /\ selected' = SelectCandidates(r.candidate_ids)
                  /\ pc' = "scoring"
                  /\ response' = <<>>
    /\ results' = <<>>
    /\ cursor' = 0
    /\ explanation' = <<>>
    /\ UNCHANGED <<candidates, project, match_results, lastMatch>>

\* the MatchResult built with the fairness adjustment kept for the first result
\* stored only: later ones carry the raw score as their final score
NewMatchResultFirstAdjusted(id, run, c, p, match_data) ==
    [id                      |-> id,
     run                     |-> run,
     candidate_id            |-> c.id,
     project_id              |-> p.id,
     raw_score               |-> match_data.raw_score,
     final_score             |-> IF id = 1 THEN match_data.final_score
                                 ELSE match_data.raw_score,
     fairness_adjustment     |-> IF id = 1 THEN match_data.fairness_adjustment ELSE 0,
     technical_score         |-> match_data.technical_score,
     communication_score     |-> match_data.communication_score,
     leadership_score        |-> match_data.leadership_score,
     experience_score        |-> match_data.experience_score,
     skill_gaps              |-> match_data.skill_gaps,
     explanations            |-> match_data.explanations,
     bias_mitigation_applied |-> match_data.bias_mitigation_applied,
     algorithm_version       |-> VERSION,
     rank                    |-> NullRank,
     stored                  |-> <<>>]

NewMatchResult(id, run, c, p, match_data) ==
    [id                      |-> id,
     run                     |-> run,
     candidate_id            |-> c.id,
     project_id              |-> p.id,
     raw_score               |-> match_data.raw_score,
     final_score             |-> match_data.final_score,
     fairness_adjustment     |-> match_data.fairness_adjustment,
     technical_score         |-> match_data.technical_score,
     communication_score     |-> match_data.communication_score,
     leadership_score        |-> match_data.leadership_score,
     experience_score        |-> match_data.experience_score,
     skill_gaps              |-> match_data.skill_gaps,
     explanations            |-> match_data.explanations,
     bias_mitigation_applied |-> match_data.bias_mitigation_applied,
     algorithm_version       |-> VERSION,
     rank                    |-> NullRank,
     stored                  |-> <<>>]

\* one iteration of the loop of lines 359-383
ScoreCandidate ==
    /\ pc = "scoring"
    /\ Len(results) < Len(selected)
    /\ LET c          == selected[Len(results) + 1]
           p          == FindProject(request[1].project_id)[1]
           match_data == calculate_match(c, p, <<>>, request[1].fairness_override)
           id         == Len(match_results) + 1
       IN  IF match_data.error # None
           THEN /\ response' = <<[status |-> 500, error |-> match_data.error,
                                  detail |-> <<>>]>>
                /\ match_results' = Discard(match_results)
                /\ results' = <<>>
                /\ pc' = "idle"
           ELSE /\ match_results' = Append(match_results,
                                           NewMatchResult(id, request[1].run, c, p, match_data))
                /\ results' = Append(results, [candidate |-> c, match |-> id,
                                               match_data |-> match_data])
                /\ UNCHANGED <<pc, response>>
    /\ UNCHANGED <<candidates, project, request, selected, cursor, lastMatch,
                   explanation>>

\* the commit, and the ranking after it, begun as soon as one candidate is scored
CommitResultsEarly ==
    /\ pc = "scoring"
    /\ Len(results) >= 1
    /\ match_results' = Commit(match_results)
    /\ pc' = "sort"
    /\ UNCHANGED <<candidates, project, request, selected, results, cursor, response,
                   lastMatch, explanation>>

\* line 385
CommitResults ==
    /\ pc = "scoring"
    /\ Len(results) = Len(selected)
    /\ match_results' = Commit(match_results)
    /\ pc' = "sort"
    /\ UNCHANGED <<candidates, project, request, selected, results, cursor, response,
                   lastMatch, explanation>>

\* the results sorted by a sort that is not stable
SortResultsUnstable(rs) ==
    Vals(SortedDescUnstable([i \in 1..Len(rs) |->
                        [key |-> match_results[rs[i].match].final_score, val |-> rs[i]]]))

\* results.sort(key=lambda x: x[1].final_score, reverse=True)
sort_results(rs) ==
    Vals(SortedDesc([i \in 1..Len(rs) |->
                        [key |-> match_results[rs[i].match].final_score, val |-> rs[i]]]))

\* line 388
SortResults ==
    /\ pc = "sort"
    /\ results' = sort_results(results)
    /\ cursor' = 0
    /\ pc' = "rank"
    /\ UNCHANGED <<candidates, project, match_results, request, selected, response,
                   lastMatch, explanation>>

\* enumerate(results): counting from 0
RankFromZero(i) == i - 1

\* enumerate(results, 1): the rank given to the element at position i
rank_of(i) == i

\* the rank written to every MatchResult of the same candidate and project, those
\* of earlier runs included
SetRankOfCandidate(rows, id, rank) ==
    [i \in 1..Len(rows) |->
        IF rows[i].candidate_id = rows[id].candidate_id /\ rows[i].project_id = rows[id].project_id
        THEN [rows[i] EXCEPT !.rank = rank]
        ELSE rows[i]]

\* match.rank = rank, on the MatchResult with this id
set_rank(rows, id, rank) == [rows EXCEPT ![id].rank = rank]

\* one iteration of the loop of lines 390-391
AssignRank ==
    /\ pc = "rank"
    /\ cursor < Len(results)
    /\ match_results' = set_rank(match_results, results[cursor + 1].match,
                                 rank_of(cursor + 1))
    /\ cursor' = cursor + 1
    /\ UNCHANGED <<candidates, project, pc, request, selected, results, response,
                   lastMatch, explanation>>

\* line 393
CommitRanks ==
    /\ pc = "rank"
    /\ cursor = Len(results)
    /\ match_results' = Commit(match_results)
    /\ pc' = "metrics"
    /\ UNCHANGED <<candidates, project, request, selected, results, cursor, response,
                   lastMatch, explanation>>

\* lines 395-406, and the response main.run_matching builds from it
ReturnRun ==
    /\ pc = "metrics"
    /\ response' =
          <<[status           |-> 200,
             error            |-> None,
             project_id       |-> request[1].project_id,
             total_candidates |-> Len(selected),
             matches          |-> [i \in 1..Len(results) |-> match_results[results[i].match]],
             fairness_metrics |-> _calculate_fairness_metrics(
                                     [i \in 1..Len(results) |->
                                         [candidate   |-> results[i].candidate,
                                          final_score |->
                                              match_results[results[i].match].final_score]])]>>
    /\ pc' = "idle"
    /\ UNCHANGED <<candidates, project, match_results, request, selected, results, cursor,
                   lastMatch, explanation>>

\* ------------------------------------------------------------ get_explanation_detail
\* the ids a GET /matching/explanation/{match_result_id} request asks for
MatchIds == 1..(MaxCandidates + 1)

\* what another session reads of the table: the rows committed, as committed
Committed(rows) ==
    LET stored == SelectSeq(rows, LAMBDA m : m.stored # <<>>)
    IN  [i \in 1..Len(stored) |-> [stored[i] EXCEPT !.rank = stored[i].stored[1]]]

\* db.query(MatchResult).filter(MatchResult.id == match_result_id).first()
FindMatch(match_result_id) ==
    SelectSeq(Committed(match_results), LAMBDA m : m.id = match_result_id)

\* round(np.mean([max(0, 1 - np.var(scores) / 1000), 0.9]), 3), in thousandths.
\* With the four scores in hundredths, total their sum and squares the sum of
\* their squares, np.var(scores) is (4 * squares - total^2) / 160000, so the
\* mean of the two factors is 0.45 + (160000000 - (4 * squares - total^2)) / 320000000.
_calculate_confidence(match) ==
    LET scores   == <<match.technical_score, match.communication_score,
                      match.leadership_score, match.experience_score>>
        total    == scores[1] + scores[2] + scores[3] + scores[4]
        squares  == scores[1] * scores[1] + scores[2] * scores[2]
                       + scores[3] * scores[3] + scores[4] * scores[4]
        spread   == 4 * squares - total * total
        headroom == IF spread >= 160000000 THEN 0 ELSE 160000000 - spread
    IN  RoundScaled(RatAdd(RatInt(450), Rat(headroom, 320000)), 1)

\* the entries of the heatmap for the gaps recorded with the match
gap_heatmap(skill_gaps) ==
    [i \in 1..Len(skill_gaps) |->
        [skill     |-> skill_gaps[i].skill,
         required  |-> skill_gaps[i].required,
         actual    |-> skill_gaps[i].actual,
         intensity |-> IF skill_gaps[i].required > 0
                       THEN Rat(skill_gaps[i].actual, skill_gaps[i].required)
                       ELSE RatInt(0)]]

\* the entries of the heatmap for the required skills with no gap recorded
no_gap_heatmap(match, candidate, p) ==
    LET gap_skills == {match.skill_gaps[i].skill : i \in 1..Len(match.skill_gaps)}
        skills     == SelectSeq(required_skills(p), LAMBDA skill : skill \notin gap_skills)
    IN  [i \in 1..Len(skills) |->
            [skill     |-> skills[i],
             required  |-> 80,
             actual    |-> IF CandidateSkillRow(candidate, skills[i]) # <<>>
                           THEN CandidateSkillRow(candidate, skills[i])[1] ELSE 0,
             intensity |-> RatInt(1)]]

\* engine.get_explanation_detail(match_result_id) for a match that exists
get_explanation_detail(match) ==
    LET candidate == candidates[match.candidate_id]
        p         == FindProject(match.project_id)[1]
    IN  [status             |-> 200,
         match_id           |-> match.id,
         decision_tree      |->
            [root           |-> [score      |-> match.raw_score,
                                 components |->
                                    [technical     |-> match.technical_score,
                                     communication |-> match.communication_score,
                                     leadership    |-> match.leadership_score,
                                     experience    |-> match.experience_score]],
             fairness_layer |-> [adjustments |-> match.bias_mitigation_applied,
                                 bonus       |-> match.fairness_adjustment],
             final          |-> [score |-> match.final_score, rank |-> match.rank]],
         competency_heatmap |-> gap_heatmap(match.skill_gaps)
                                   \o no_gap_heatmap(match, candidate, p),
         bias_log           |-> match.bias_mitigation_applied,
         confidence_score   |-> _calculate_confidence(match)]

\* GET /matching/explanation/{match_result_id}, served once between two
\* run_matching calls; the 404 is main.get_match_explanation's
GetExplanationDetail ==
    /\ pc = "idle"
    /\ explanation = <<>>
    /\ \E match_result_id \in MatchIds :
          explanation' = IF FindMatch(match_result_id) = <<>>
                    THEN <<[status |-> 404, error |-> "ValueError",
                            detail |-> "Match result not found"]>>
                    ELSE <<get_explanation_detail(FindMatch(match_result_id)[1])>>
    /\ UNCHANGED <<candidates, project, match_results, pc, request, selected, results,
                   cursor, response, lastMatch>>

Next ==
    \/ RunStart
    \/ ScoreCandidate
    \/ CommitResults
    \/ SortResults
    \/ AssignRank
    \/ CommitRanks
    \/ ReturnRun
    \/ GetExplanationDetail

Spec == Init /\ [][Next]_vars


\* ------------------------------------------------------------ properties
\* a direct calculate_match call has returned a result
Returned == lastMatch # <<>> /\ lastMatch[1].result.error = None

ScoreFields ==
    {"raw_score", "final_score", "technical_score", "communication_score",
     "leadership_score", "experience_score"}

B(b) == IF b THEN 1 ELSE 0

\* position of a skill in project.required_skills
SkillPos(p, skill) == CHOOSE i \in 1..Len(p.project_skills) : p.project_skills[i].skill = skill

\* C1: every score calculate_match returns (raw, final and the four
\* components, in hundredths) lies in [0, 100].
C1_ScoresInRange ==
    Returned => \A f \in ScoreFields : lastMatch[1].result[f] \in 0..10000

\* C4: the fairness bonus is 3*[boost enabled and status low] + 2*[parity
\* enabled and gender female or non_binary] + 1*[years_experience < 3 and
\* raw_score > 70], the third whatever the flags; it lies in 0..6.
C4_FairnessBonusFormula ==
    Returned =>
        LET c == lastMatch[1].candidate
            l == lastMatch[1].locals
            expected ==
                3 * B(l.fairness.socioeconomic_boost /\ c.socioeconomic_status = "low")
                + 2 * B(l.fairness.gender_parity /\ c.gender \in {"female", "non_binary"})
                + B(c.years_experience < 3 /\ RatLt(RatInt(70), l.raw_score))
        IN  /\ l.fairness_bonus = expected
            /\ l.fairness_bonus \in 0..6
            /\ lastMatch[1].result.fairness_adjustment = 100 * expected

\* C4 witness: a candidate both flagged rules would reach, scored with both
\* flags off: the early-career rule alone gives 1
C4_Witness ==
    /\ Returned
    /\ lastMatch[1].candidate.socioeconomic_status = "low"
    /\ lastMatch[1].candidate.gender = "female"
    /\ ~lastMatch[1].locals.fairness.socioeconomic_boost
    /\ ~lastMatch[1].locals.fairness.gender_parity
    /\ lastMatch[1].locals.fairness_bonus = 1

\* the same call with socioeconomic_boost turned off
BoostOff ==
    calculate_match(lastMatch[1].candidate, lastMatch[1].project,
                    lastMatch[1].custom_weights,
                    <<[lastMatch[1].locals.fairness EXCEPT !.socioeconomic_boost = FALSE]>>)

BoostOnForLow ==
    /\ Returned
    /\ lastMatch[1].candidate.socioeconomic_status = "low"
    /\ lastMatch[1].locals.fairness.socioeconomic_boost

\* C5: for a candidate of low status, turning socioeconomic_boost off lowers
\* the bonus by exactly 3, removes exactly the socioeconomic message, and
\* leaves the raw score, the component scores and the other messages as they were.
C5_BoostToggle ==
    BoostOnForLow =>
        LET on == lastMatch[1].result
        IN  /\ BoostOff.error = None
            /\ BoostOff.fairness_adjustment = on.fairness_adjustment - 300
            /\ on.bias_mitigation_applied =
                  <<SesMessage("low")>> \o BoostOff.bias_mitigation_applied
            /\ \A i \in 1..Len(BoostOff.bias_mitigation_applied) :
                  BoostOff.bias_mitigation_applied[i] # SesMessage("low")
            /\ \A f \in ScoreFields \ {"final_score"} : BoostOff[f] = on[f]

\* C5 witness: the boost applied together with both other rules
C5_Witness ==
    /\ BoostOnForLow
    /\ Len(lastMatch[1].result.bias_mitigation_applied) = 3

\* C6: the returned final score is min(100, raw score + fairness bonus).
C6_FinalIsCappedSum ==
    Returned =>
        lastMatch[1].result.final_score =
            Min(10000, lastMatch[1].result.raw_score
                       + lastMatch[1].result.fairness_adjustment)

\* C6 witness: a raw score below 100 that the bonus lifts past 100
C6_Witness ==
    /\ Returned
    /\ lastMatch[1].result.raw_score < 10000
    /\ lastMatch[1].result.raw_score + lastMatch[1].result.fairness_adjustment > 10000
    /\ lastMatch[1].result.final_score = 10000

\* the level a candidate holds in a skill: 0 without a proficiency record
ActualLevel(c, skill) == IF c.prof[skill] = NoRecord THEN 0 ELSE c.prof[skill]

\* C7: the gap list holds one entry for exactly the required skills whose
\* actual level is below the required level, each with
\* gap = required - actual > 0; no skill with actual >= required appears.
C7_GapsExactlyShortfalls ==
    Returned =>
        LET c    == lastMatch[1].candidate
            rows == lastMatch[1].project.project_skills
            gaps == lastMatch[1].result.skill_gaps
        IN  /\ \A i \in 1..Len(rows) :
                  LET n == Cardinality({j \in 1..Len(gaps) : gaps[j].skill = rows[i].skill})
                  IN  IF ActualLevel(c, rows[i].skill) < rows[i].required_level
                      THEN n = 1 ELSE n = 0
            /\ \A j \in 1..Len(gaps) :
                  \E i \in 1..Len(rows) :
                      /\ rows[i].skill = gaps[j].skill
                      /\ gaps[j].required = rows[i].required_level
                      /\ gaps[j].actual = ActualLevel(c, rows[i].skill)
                      /\ gaps[j].gap = gaps[j].required - gaps[j].actual
                      /\ gaps[j].gap > 0

\* C7 witness: one required skill met, one missed for want of a record
C7_Witness ==
    /\ Returned
    /\ Len(lastMatch[1].project.project_skills) = 3
    /\ Len(lastMatch[1].result.skill_gaps) = 1
    /\ lastMatch[1].result.skill_gaps[1].actual = 0
    /\ \E i \in 1..3 :
          LET r == lastMatch[1].project.project_skills[i]
          IN  /\ r.required_level > 0
              /\ ActualLevel(lastMatch[1].candidate, r.skill) = r.required_level + 3

\* C8: the gap list is sorted by gap descending, entries of equal gap in the
\* order of their skills in the project's requirement set.
C8_GapsSortedStable ==
    Returned =>
        LET p    == lastMatch[1].project
            gaps == lastMatch[1].result.skill_gaps
        IN  \A i, j \in 1..Len(gaps) :
                i < j => \/ gaps[i].gap > gaps[j].gap
                         \/ /\ gaps[i].gap = gaps[j].gap
                            /\ SkillPos(p, gaps[i].skill) < SkillPos(p, gaps[j].skill)

\* C8 witness: three gaps, the first two equal, the smallest enumerated first
C8_Witness ==
    /\ Returned
    /\ Len(lastMatch[1].result.skill_gaps) = 3
    /\ lastMatch[1].result.skill_gaps[1].gap = lastMatch[1].result.skill_gaps[2].gap
    /\ SkillPos(lastMatch[1].project, lastMatch[1].result.skill_gaps[3].skill) = 1

\* the scenario of C10 was scored
Scenario ==
    /\ Returned
    /\ lastMatch[1].candidate.prof = Prof(95, 88, 78, NoRecord)
    /\ lastMatch[1].candidate.years_experience = 3
    /\ lastMatch[1].candidate.socioeconomic_status = "low"
    /\ lastMatch[1].candidate.gender = "non_binary"
    /\ lastMatch[1].project.project_skills = ScenarioRows
    /\ \A k \in WeightKeys : WeightGet(lastMatch[1].locals.weights, k) = DefaultWeight(k)
    /\ lastMatch[1].locals.fairness = FairnessConfig(TRUE, TRUE)

\* C10: the scenario yields technical 100, communication 78, leadership 0,
\* experience 45, raw 80.1, bonus 5 without the early-career rule, final 85.1.
C10_ScenarioScores ==
    Scenario =>
        /\ lastMatch[1].result.technical_score = 10000
        /\ lastMatch[1].result.communication_score = 7800
        /\ lastMatch[1].result.leadership_score = 0
        /\ lastMatch[1].result.experience_score = 4500
        /\ lastMatch[1].result.raw_score = 8010
        /\ lastMatch[1].result.fairness_adjustment = 500
        /\ lastMatch[1].result.bias_mitigation_applied =
              <<SesMessage("low"), GenderMessage("non_binary")>>
        /\ lastMatch[1].result.final_score = 8510

\* C10 witness: the scenario was scored with the project's own configuration
C10_Witness ==
    /\ Scenario
    /\ lastMatch[1].custom_weights = <<>>
    /\ lastMatch[1].custom_fairness = <<>>

\* run_matching has returned its response for the run in request
Completed ==
    /\ pc = "idle"
    /\ response # <<>>
    /\ response[1].status = 200

\* the MatchResults a run created
RunRows(run) == SelectSeq(match_results, LAMBDA m : m.run = run)

\* C2: after run_matching completes over N scored candidates, the ranks of
\* the run's N MatchResults are exactly 1..N, none missing, none shared.
C2_RanksExactlyOneToN ==
    Completed =>
        LET rows == RunRows(request[1].run)
        IN  /\ Len(rows) = Len(selected)
            /\ {rows[i].rank : i \in 1..Len(rows)} = 1..Len(selected)
            /\ \A i \in 1..Len(rows) : rows[i].stored = <<rows[i].rank>>

\* C2 witness: a completed run over at least two candidates
C2_Witness ==
    /\ Completed
    /\ Len(RunRows(request[1].run)) >= 2

\* position of a candidate in the candidate set the run scored
InputPos(candidate_id) == CHOOSE i \in 1..Len(selected) : selected[i].id = candidate_id

\* C3: the returned matches are in final-score order, descending; a greater
\* final score has a smaller rank, and equal final scores keep the order
\* of their candidates in the input candidate set.
C3_OrderedByFinalScoreStable ==
    Completed =>
        LET m == response[1].matches
        IN  /\ Len(m) = Len(selected)
            /\ \A i, j \in 1..Len(m) :
                  /\ i < j =>
                        \/ m[i].final_score > m[j].final_score
                        \/ /\ m[i].final_score = m[j].final_score
                           /\ InputPos(m[i].candidate_id) < InputPos(m[j].candidate_id)
                  /\ m[i].final_score > m[j].final_score => m[i].rank < m[j].rank

\* C3 witness: a run of three with a tie, whose order the sort changed
C3_Witness ==
    /\ Completed
    /\ Len(response[1].matches) = 3
    /\ \E i \in 1..2 : response[1].matches[i].final_score
                          = response[1].matches[i + 1].final_score
    /\ response[1].matches[1].candidate_id # selected[1].id

\* the run in request found its project and selected no candidate
EmptyRun ==
    /\ request # <<>>
    /\ FindProject(request[1].project_id) # <<>>
    /\ selected = <<>>

\* C11: run_matching on an existing project for which no candidate is selected
\* raises nothing and creates no MatchResult, and what it returns has
\* total_candidates = 0, no match and a fairness-metrics mapping with no key.
C11_EmptyRunReturnsEmpty ==
    EmptyRun =>
        /\ RunRows(request[1].run) = <<>>
        /\ response # <<>> =>
              /\ response[1].status = 200
              /\ response[1].total_candidates = 0
              /\ response[1].matches = <<>>
              /\ DOMAIN response[1].fairness_metrics = {}

\* C11 witness: a run that selected nobody has returned, in a database that
\* holds candidates and the results of an earlier run
C11_Witness ==
    /\ EmptyRun
    /\ Completed
    /\ candidates # <<>>
    /\ match_results # <<>>

\* no stored project has this identifier
NoSuchProject(project_id) == \A i \in 1..Len(project) : project[i].id # project_id

\* the HTTP layer has answered the run in request with a not-found error
NotFound == response # <<>> /\ response[1].status = 404

\* C12: a run_matching call whose project identifier matches no project ends at
\* once with a not-found error whose message names that identifier, reported
\* as HTTP 404; no candidate is scored, no MatchResult is created and no
\* stored MatchResult is changed.
C12_MissingProjectNotFound ==
    /\ [](NotFound => RunRows(request[1].run) = <<>>)
    /\ [][(request' # request /\ NoSuchProject(request'[1].project_id)) =>
             /\ response' = <<[status |-> 404, error |-> "ValueError",
                               detail |-> <<"Project ", request'[1].project_id,
                                            " not found">>]>>
             /\ pc' = "idle"
             /\ results' = <<>>
             /\ match_results' = match_results]_vars

\* C12 witness: a not-found answer, in a database that holds the ranked
\* results of an earlier run
C12_Witness ==
    /\ NotFound
    /\ NoSuchProject(request[1].project_id)
    /\ match_results # <<>>
    /\ \A i \in 1..Len(match_results) :
          /\ match_results[i].rank >= 1
          /\ match_results[i].stored = <<match_results[i].rank>>

\* a run over at least one candidate has returned
CompletedNonEmpty == Completed /\ response[1].matches # <<>>

\* the returned matches of the candidates whose demographic field has value g
MatchesOf(field, g) ==
    SelectSeq(response[1].matches, LAMBDA m : candidates[m.candidate_id][field] = g)

\* the values of a demographic field known among the scored candidates
KnownGroups(field) ==
    {candidates[response[1].matches[i].candidate_id][field] :
        i \in 1..Len(response[1].matches)} \ {None}

\* the average final score of a group, in hundredths
GroupAverage(field, g) ==
    LET m == MatchesOf(field, g)
    IN  Rat(SumSeq([i \in 1..Len(m) |-> m[i].final_score]), Len(m))

MinGenderAverage ==
    CHOOSE x \in {GroupAverage("gender", g) : g \in KnownGroups("gender")} :
        \A h \in KnownGroups("gender") : RatLe(x, GroupAverage("gender", h))

MaxGenderAverage ==
    CHOOSE x \in {GroupAverage("gender", g) : g \in KnownGroups("gender")} :
        \A h \in KnownGroups("gender") : RatLe(GroupAverage("gender", h), x)

GenderRatioPresent ==
    /\ CompletedNonEmpty
    /\ "gender_parity_ratio" \in DOMAIN response[1].fairness_metrics

\* C13, as the code has it: in the metrics of a non-empty run,
\* gender_parity_ratio is present exactly when the scored candidates with a
\* known gender fall into at least 2 gender groups; when present it is
\* min(group average final score) / max(group average final score) rounded to
\* 3 decimals, or 1.0 when the maximum average is 0, and lies in [0, 1].
C13_GenderParityRounded ==
    CompletedNonEmpty =>
        /\ GenderRatioPresent <=> Cardinality(KnownGroups("gender")) >= 2
        /\ GenderRatioPresent =>
              LET ratio == response[1].fairness_metrics["gender_parity_ratio"]
              IN  /\ ratio \in 0..1000
                  /\ ratio = IF MaxGenderAverage.n = 0 THEN 1000
                             ELSE RoundScaled(Rat(MinGenderAverage.n * MaxGenderAverage.d,
                                                  MinGenderAverage.d * MaxGenderAverage.n),
                                              1000)

\* C13 as stated: when present the ratio equals min / max of the group
\* averages exactly (1.0 when the maximum average is 0).
C13_GenderParityExact ==
    GenderRatioPresent =>
        LET ratio == response[1].fairness_metrics["gender_parity_ratio"]
        IN  IF MaxGenderAverage.n = 0 THEN ratio = 1000
            ELSE ratio * MinGenderAverage.d * MaxGenderAverage.n
                    = 1000 * MinGenderAverage.n * MaxGenderAverage.d

\* C13 witness: a run over candidates of two or more gender groups and one of
\* unknown gender, whose ratio of averages has more than 3 decimals
C13_Witness ==
    /\ GenderRatioPresent
    /\ \E i \in 1..Len(response[1].matches) :
          candidates[response[1].matches[i].candidate_id].gender = None
    /\ MaxGenderAverage.n > 0
    /\ response[1].fairness_metrics["gender_parity_ratio"] * MinGenderAverage.d
          * MaxGenderAverage.n # 1000 * MinGenderAverage.n * MaxGenderAverage.d

SesParityPresent ==
    /\ CompletedNonEmpty
    /\ "socioeconomic_parity" \in DOMAIN response[1].fairness_metrics

\* C14, as the code has it: in the metrics of a non-empty run,
\* socioeconomic_parity is omitted exactly when no scored candidate has a known
\* socioeconomic status; overall_fairness_score is 1 - socioeconomic_parity
\* when it is present, and 1 (the parity counted as 0) when it was omitted.
C14_OverallFairnessDefaultsToOne ==
    CompletedNonEmpty =>
        /\ "overall_fairness_score" \in DOMAIN response[1].fairness_metrics
        /\ ~SesParityPresent <=> KnownGroups("socioeconomic_status") = {}
        /\ response[1].fairness_metrics["overall_fairness_score"] =
              IF SesParityPresent
              THEN 1000 - response[1].fairness_metrics["socioeconomic_parity"]
              ELSE 1000

\* C14 as stated: overall_fairness_score is 1 - socioeconomic_parity when the
\* parity is present and 0 when it was omitted.
C14_OverallFairnessZeroWhenOmitted ==
    CompletedNonEmpty =>
        /\ ~SesParityPresent <=> KnownGroups("socioeconomic_status") = {}
        /\ response[1].fairness_metrics["overall_fairness_score"] =
              IF SesParityPresent
              THEN 1000 - response[1].fairness_metrics["socioeconomic_parity"]
              ELSE 0

\* C14 witness: a run over candidates none of whom has a known socioeconomic
\* status has returned its metrics, with an overall score of 1
C14_Witness ==
    /\ CompletedNonEmpty
    /\ ~SesParityPresent
    /\ KnownGroups("socioeconomic_status") = {}
    /\ response[1].fairness_metrics["overall_fairness_score"] = 1000

\* <<x>> when b holds, nothing otherwise
When(b, x) == IF b THEN <<x>> ELSE <<>>

\* C15: the mitigation list returned with a score holds exactly one message per
\* fairness rule that fired, in the order socioeconomic boost, gender parity,
\* early-career boost; when the socioeconomic rule fires its message is the
\* first element, and the list is non-empty exactly when the bonus is > 0.
C15_MitigationsInRuleOrder ==
    Returned =>
        LET c      == lastMatch[1].candidate
            l      == lastMatch[1].locals
            list   == lastMatch[1].result.bias_mitigation_applied
            ses    == l.fairness.socioeconomic_boost /\ c.socioeconomic_status = "low"
            gender == l.fairness.gender_parity /\ c.gender \in {"female", "non_binary"}
            early  == c.years_experience < 3 /\ RatLt(RatInt(70), l.raw_score)
        IN  /\ list = When(ses, SesMessage(c.socioeconomic_status))
                      \o When(gender, GenderMessage(c.gender))
                      \o When(early, EarlyCareerMessage)
            /\ ses => list[1] = SesMessage("low")
            /\ list # <<>> <=> lastMatch[1].result.fairness_adjustment > 0

\* C15 witness: all three rules fired for one candidate
C15_Witness ==
    /\ Returned
    /\ lastMatch[1].result.fairness_adjustment = 600
    /\ lastMatch[1].result.bias_mitigation_applied[3] = EarlyCareerMessage

\* the entries of type fairness in an explanation list
FairnessEntries(explanations) == SelectSeq(explanations, LAMBDA e : e.type = "fairness")

\* mitigation lists _generate_explanations may be handed
MitigationLists ==
    {<<>>, <<EarlyCareerMessage>>,
     <<SesMessage("low"), GenderMessage("female"), EarlyCareerMessage>>}

\* _generate_explanations on the scores and gaps of the last call, with the
\* given bonus and mitigation list
ExplanationsWith(fairness_bonus, mitigations) ==
    LET l == lastMatch[1].locals
    IN  _generate_explanations(lastMatch[1].candidate, l.technical_score,
                               l.communication_score, l.leadership_score,
                               l.experience_score, l.skill_gaps, fairness_bonus,
                               mitigations)

\* C16: the explanation list holds exactly one entry of type fairness, of impact
\* Adjustment, when the fairness bonus is > 0 and none when the bonus is 0,
\* whatever the component scores, the gap list and the mitigation list are.
C16_OneFairnessEntryIffBonus ==
    Returned =>
        /\ Len(FairnessEntries(lastMatch[1].result.explanations))
              = B(lastMatch[1].result.fairness_adjustment > 0)
        /\ \A fairness_bonus \in 0..6, mitigations \in MitigationLists :
              LET entries == FairnessEntries(ExplanationsWith(fairness_bonus, mitigations))
              IN  /\ Len(entries) = B(fairness_bonus > 0)
                  /\ \A i \in 1..Len(entries) : entries[i].impact = "Adjustment"

\* C16 witness: a score with a bonus, two mitigation messages, a skill gap and
\* one fairness entry among its explanations
C16_Witness ==
    /\ Returned
    /\ lastMatch[1].result.fairness_adjustment = 500
    /\ Len(lastMatch[1].result.bias_mitigation_applied) = 2
    /\ lastMatch[1].result.skill_gaps # <<>>
    /\ Len(FairnessEntries(lastMatch[1].result.explanations)) = 1

\* the technical entries: those of the three technical categories
TechnicalCategories == {"Technical Excellence", "Technical Competency", "Technical Gap"}

TechnicalEntries(explanations) ==
    SelectSeq(explanations, LAMBDA e : e.category \in TechnicalCategories)

\* technical scores _generate_explanations may be handed, the ends of the
\* bands among them
TechnicalProbes ==
    {RatInt(0), Rat(699, 10), RatInt(70), RatInt(84), Rat(849, 10), RatInt(85), RatInt(100)}

\* the list is not empty and its first element is its only technical entry,
\* the one of the band technical lies in
TechnicalBand(explanations, technical) ==
    LET first == explanations[1]
    IN  /\ explanations # <<>>
        /\ Len(TechnicalEntries(explanations)) = 1
        /\ first.category \in TechnicalCategories
        /\ RatLe(RatInt(85), technical) =>
              /\ first.type = "strength"
              /\ first.category = "Technical Excellence"
              /\ first.impact = "High"
        /\ (RatLe(RatInt(70), technical) /\ RatLt(technical, RatInt(85))) =>
              /\ first.type = "neutral"
              /\ first.category = "Technical Competency"
              /\ first.impact = "Medium"
        /\ RatLt(technical, RatInt(70)) =>
              /\ first.type = "weakness"
              /\ first.category = "Technical Gap"
              /\ first.impact = "Medium"

\* C17: the explanation list is never empty; its first element is its only
\* technical entry: strength / Technical Excellence / High when technical >= 85,
\* neutral / Technical Competency / Medium when 70 <= technical < 85, and
\* weakness / Technical Gap / Medium when technical < 70. It holds of the list
\* returned with a score and of _generate_explanations called on any technical
\* score with the other arguments of that call.
C17_TechnicalEntryFirst ==
    Returned =>
        LET l == lastMatch[1].locals
        IN  /\ TechnicalBand(lastMatch[1].result.explanations, l.technical_score)
            /\ \A technical \in TechnicalProbes :
                  TechnicalBand(
                      _generate_explanations(lastMatch[1].candidate, technical,
                                             l.communication_score, l.leadership_score,
                                             l.experience_score, l.skill_gaps,
                                             l.fairness_bonus, l.bias_mitigations),
                      technical)

\* C17 witness: a technical score strictly between 84 and 85, explained as
\* Technical Competency
C17_Witness ==
    /\ Returned
    /\ RatLt(RatInt(84), lastMatch[1].locals.technical_score)
    /\ RatLt(lastMatch[1].locals.technical_score, RatInt(85))
    /\ lastMatch[1].result.explanations[1].category = "Technical Competency"

\* the last call made again for a candidate who differs from its candidate in
\* demographic fields only
MatchFor(c) ==
    calculate_match(c, lastMatch[1].project, lastMatch[1].custom_weights,
                    lastMatch[1].custom_fairness)

\* the candidate of the last call with no demographic field known
Undeclared ==
    [lastMatch[1].candidate EXCEPT !.gender = None, !.ethnicity = None,
                                   !.socioeconomic_status = None]

\* the candidate of the last call with another ethnicity
OtherEthnicity ==
    [lastMatch[1].candidate EXCEPT
        !.ethnicity = IF lastMatch[1].candidate.ethnicity = None THEN "asian" ELSE None]

DemographicFreeFields ==
    {"technical_score", "communication_score", "leadership_score", "experience_score",
     "raw_score", "skill_gaps"}

NotFairness(explanations) == SelectSeq(explanations, LAMBDA e : e.type # "fairness")

\* C18: a candidate and the candidate with the same skills and experience and
\* no known gender, ethnicity or socioeconomic status, scored against the same
\* project with the same configuration, get the same technical, communication,
\* leadership and experience scores, the same raw score, the same skill gaps
\* and the same explanations but for the fairness entry (so any two candidates
\* that differ only in those three fields do); and changing the ethnicity
\* changes nothing in the result.
C18_DemographicsOnlyInFairness ==
    Returned =>
        LET undeclared == MatchFor(Undeclared)
            declared   == lastMatch[1].result
        IN  /\ undeclared.error = None
            /\ \A f \in DemographicFreeFields : undeclared[f] = declared[f]
            /\ NotFairness(undeclared.explanations) = NotFairness(declared.explanations)
            /\ MatchFor(OtherEthnicity) = declared

\* C18 witness: a candidate whose gender and status earn a bonus the
\* undeclared candidate does not get, with a known ethnicity
C18_Witness ==
    /\ Returned
    /\ lastMatch[1].candidate.ethnicity = "asian"
    /\ lastMatch[1].candidate.gender = "female"
    /\ lastMatch[1].candidate.socioeconomic_status = "low"
    /\ lastMatch[1].result.fairness_adjustment >= 500
    /\ MatchFor(Undeclared).final_score < lastMatch[1].result.final_score
    /\ lastMatch[1].result.skill_gaps # <<>>

\* the candidates the request in force asks for: the active ones, and when it
\* supplies a list of identifiers, empty or not, those of them it lists
Requested ==
    {candidates[i].id : i \in {j \in 1..Len(candidates) :
        /\ candidates[j].is_active
        /\ request[1].candidate_ids # <<>> =>
              candidates[j].id \in SeqRange(request[1].candidate_ids[1])}}

\* C19: the candidates run_matching scores are the active candidates whose
\* identifier is in the supplied subset when the request supplies one, an empty
\* one included, and all active candidates when it supplies none; no inactive
\* candidate is scored, and total_candidates is the number of returned matches.
C19_ScoresRequestedCandidates ==
    (request # <<>> /\ ~NoSuchProject(request[1].project_id)) =>
        /\ {selected[i].id : i \in 1..Len(selected)} = Requested
        /\ \A i \in 1..Len(selected) : selected[i].is_active
        /\ Completed =>
              /\ response[1].total_candidates = Len(response[1].matches)
              /\ {response[1].matches[i].candidate_id : i \in 1..Len(response[1].matches)}
                    = Requested

\* the candidates a run created a MatchResult for
RunCandidates(run) == {RunRows(run)[i].candidate_id : i \in 1..Len(RunRows(run))}

\* every run so far has completed over the candidates of the last one
SameCandidatesEveryRun ==
    /\ Completed
    /\ \A run \in 1..request[1].run :
          /\ Len(RunRows(run)) = Len(selected)
          /\ RunCandidates(run) = {selected[i].id : i \in 1..Len(selected)}

RunInForce == request # <<>> /\ ~NoSuchProject(request[1].project_id)

\* calculate_match of every stored candidate alone, against every project and
\* under every fairness override, computed once
AloneMatches ==
    [c \in {[q EXCEPT !.id = i] : q \in RunProfiles, i \in 1..MaxCandidates},
     p \in RunProjects, custom_fairness \in FairnessOverrides |->
        calculate_match(c, p, <<>>, custom_fairness)]

\* what calculate_match returns for this candidate scored alone, with the
\* project and the fairness override of the run in force
ScoredAlone(candidate_id) ==
    AloneMatches[candidates[candidate_id], project[1], request[1].fairness_override]

PerCandidateFields ==
    ScoreFields \cup {"fairness_adjustment", "skill_gaps", "explanations",
                      "bias_mitigation_applied"}

RankedRows == SelectSeq(RunRows(request[1].run), LAMBDA m : m.rank # NullRank)

\* every selected candidate of the run in force has its MatchResult
AllScored == Len(RunRows(request[1].run)) = Len(selected)

\* C22: in run_matching no MatchResult of the run has a rank before every
\* selected candidate is scored, no step gives one a rank before that, and the
\* step that computes the cohort metrics and returns them is taken only when
\* every MatchResult of the run has its rank.
C22_ScoreThenRankThenMetrics ==
    /\ [](RunInForce => (RankedRows # <<>> => AllScored))
    /\ [][(RunInForce /\ \E i \in 1..Len(match_results) :
                            /\ i <= Len(match_results')
                            /\ match_results'[i].rank # match_results[i].rank)
             => AllScored]_vars
    /\ [][(response' # response /\ response' # <<>> /\ response'[1].status = 200)
             => /\ AllScored
                /\ Len(RankedRows) = Len(selected)
                /\ pc = "metrics"]_vars

\* C22 witness: the first of three results has its rank, the others not yet
C22_Witness ==
    /\ RunInForce
    /\ pc = "rank"
    /\ Len(selected) = 3
    /\ Len(RankedRows) = 1

\* the level the candidate of the last call has in a skill: 0 without a record
LevelOf(skill) ==
    IF lastMatch[1].candidate.prof[skill] = NoRecord THEN 0
    ELSE lastMatch[1].candidate.prof[skill]

\* the normalized score of one requirement row, as a rational
Normalized(row) ==
    IF row.required_level > 0
    THEN IF LevelOf(row.skill) >= row.required_level THEN RatInt(100)
         ELSE Rat(100 * LevelOf(row.skill), row.required_level)
    ELSE IF LevelOf(row.skill) > 0 THEN RatInt(100) ELSE RatInt(0)

\* sum over the requirement rows of weight * normalized score
RECURSIVE WeightedTotal(_)
WeightedTotal(rows) ==
    IF rows = <<>> THEN RatInt(0)
    ELSE RatAdd(RatScale(Normalized(Head(rows)), Head(rows).weight, 1),
                WeightedTotal(Tail(rows)))

RECURSIVE WeightTotal(_)
WeightTotal(rows) ==
    IF rows = <<>> THEN 0 ELSE Head(rows).weight + WeightTotal(Tail(rows))

\* C23: the technical score is the mean, weighted by the requirements' weights,
\* of min(100, actual/required*100) for a skill required above 0 and of
\* (100 if actual > 0 else 0) for a skill required at 0, actual being 0 for a
\* skill without a proficiency record; it is 0 for a project that requires no
\* skill, whatever the candidate's proficiencies.
C23_TechnicalIsWeightedMean ==
    Returned =>
        LET rows      == lastMatch[1].project.project_skills
            technical == lastMatch[1].locals.technical_score
        IN  /\ rows = <<>> => technical = RatInt(0)
            /\ rows # <<>> =>
                  /\ WeightTotal(rows) > 0
                  /\ technical.n * WeightedTotal(rows).d * WeightTotal(rows)
                        = technical.d * WeightedTotal(rows).n
            /\ lastMatch[1].result.technical_score = Round2(technical)

\* C23 witness: two requirements of different weights, one of them at level 0
\* for a skill the candidate has no record of, and a technical score strictly
\* between 0 and 100
C23_Witness ==
    /\ Returned
    /\ \E i, j \in 1..Len(lastMatch[1].project.project_skills) :
          LET ri == lastMatch[1].project.project_skills[i]
              rj == lastMatch[1].project.project_skills[j]
          IN  /\ ri.weight # rj.weight
              /\ ri.required_level = 0
              /\ lastMatch[1].candidate.prof[ri.skill] = NoRecord
    /\ lastMatch[1].result.technical_score \in 1..9999

\* C23 witness of the second case: a candidate with proficiencies scored against
\* a project that requires no skill
NoRequirementScoresZero ==
    /\ Returned
    /\ lastMatch[1].project.project_skills = <<>>
    /\ lastMatch[1].candidate.prof["Python"] = 95
    /\ lastMatch[1].result.technical_score = 0

\* the categories of the entries the rules emit, in rule order
ExpectedCategories(c, technical, communication, leadership, gaps, fairness_bonus) ==
    <<IF RatLe(RatInt(85), technical) THEN "Technical Excellence"
      ELSE IF RatLe(RatInt(70), technical) THEN "Technical Competency"
      ELSE "Technical Gap">>
    \o When(communication >= 85, "Communication")
    \o When(leadership >= 80, "Leadership")
    \o When(gaps # <<>>, "Development Opportunity")
    \o When(fairness_bonus > 0, "Equity Adjustment")
    \o When(c.years_experience >= 5, "Experience")

Categories(explanations) == [i \in 1..Len(explanations) |-> explanations[i].category]

\* the gap entry, if there is one, is about the first element of the gap list,
\* and no gap of the list is larger than that one
GapEntryIsLargest(explanations, gaps) ==
    \A i \in 1..Len(explanations) :
        explanations[i].type = "gap" =>
            /\ explanations[i].detail = <<gaps[1].skill, gaps[1].actual, gaps[1].required>>
            /\ \A j \in 1..Len(gaps) : gaps[j].gap <= gaps[1].gap

\* soft-skill scores _generate_explanations may be handed, the thresholds
\* among them
SoftSkillProbes == {<<84, 79>>, <<85, 79>>, <<84, 80>>, <<85, 80>>}

\* C24: the explanation list holds at most one entry per rule, in the order
\* technical, communication (iff communication >= 85), leadership (iff
\* leadership >= 80), gap (iff the gap list is not empty; about its first
\* element, the largest gap), fairness (iff bonus > 0), experience (iff
\* years_experience >= 5); each rule fires whatever the others do, and the
\* list has 1 to 6 entries.
C24_ExplanationsInRuleOrder ==
    Returned =>
        LET c == lastMatch[1].candidate
            l == lastMatch[1].locals
            explanations == lastMatch[1].result.explanations
        IN  /\ Categories(explanations)
                  = ExpectedCategories(c, l.technical_score, l.communication_score,
                                       l.leadership_score, l.skill_gaps, l.fairness_bonus)
            /\ Len(explanations) \in 1..6
            /\ GapEntryIsLargest(explanations, lastMatch[1].result.skill_gaps)
            /\ \A probe \in SoftSkillProbes :
                  Categories(_generate_explanations(c, l.technical_score, probe[1],
                                                    probe[2], l.experience_score,
                                                    l.skill_gaps, l.fairness_bonus,
                                                    l.bias_mitigations))
                     = ExpectedCategories(c, l.technical_score, probe[1], probe[2],
                                          l.skill_gaps, l.fairness_bonus)

\* C24 witness: all six rules fired, and the gap list has a second, smaller gap
C24_Witness ==
    /\ Returned
    /\ Len(lastMatch[1].result.explanations) = 6
    /\ Len(lastMatch[1].result.skill_gaps) >= 2
    /\ lastMatch[1].result.skill_gaps[2].gap < lastMatch[1].result.skill_gaps[1].gap

\* the weight configuration the last call was to use: the override when one is
\* supplied, with keys or without, the project's otherwise
SuppliedWeights ==
    IF lastMatch[1].custom_weights # <<>> THEN lastMatch[1].custom_weights[1]
    ELSE lastMatch[1].project.weights_config

\* the weight of a component in hundredths, its default for a key not supplied
SuppliedWeight(k) ==
    IF k \in DOMAIN SuppliedWeights THEN SuppliedWeights[k]
    ELSE CASE k = "technical" -> 60
           [] k = "communication" -> 20
           [] k = "leadership" -> 10
           [] k = "experience" -> 10

\* C25: the raw score is technical*w_t + communication*w_c + leadership*w_l
\* + experience*w_e with the weights of the override whenever one is supplied,
\* even one without keys, and of the project's configuration otherwise, a key
\* missing from the configuration used taking 0.6 / 0.2 / 0.1 / 0.1.
C25_RawScoreUsesSuppliedWeights ==
    Returned =>
        LET l == lastMatch[1].locals
        IN  l.raw_score =
               RatAdd(RatScale(l.technical_score, SuppliedWeight("technical"), 100),
                      Rat(l.communication_score * SuppliedWeight("communication")
                          + l.leadership_score * SuppliedWeight("leadership")
                          + l.experience_score * SuppliedWeight("experience"), 100))

\* a get_explanation_detail call has returned the explanation of a match
Explained == explanation # <<>> /\ explanation[1].status = 200

\* the gap recorded with the match for this skill: <<gap>> or <<>>
RecordedGap(match, skill) == SelectSeq(match.skill_gaps, LAMBDA g : g.skill = skill)

\* the heatmap entry of a required skill as described: the recorded levels and
\* their quotient for a skill with a recorded gap, the level given as required
\* (with the candidate's level and intensity 1) for a skill without one
HeatmapEntry(match, skill, required_level) ==
    IF RecordedGap(match, skill) # <<>>
    THEN LET gap == RecordedGap(match, skill)[1]
         IN  [skill |-> skill, required |-> gap.required, actual |-> gap.actual,
              intensity |-> Rat(gap.actual, gap.required)]
    ELSE [skill |-> skill, required |-> required_level,
          actual |-> ActualLevel(candidates[match.candidate_id], skill),
          intensity |-> RatInt(1)]

\* the heatmap returned has one entry for each required skill of the project
OneEntryPerRequiredSkill ==
    LET match   == FindMatch(explanation[1].match_id)[1]
        p       == FindProject(match.project_id)[1]
        heatmap == explanation[1].competency_heatmap
    IN  /\ Len(heatmap) = Len(p.project_skills)
        /\ \A r \in 1..Len(p.project_skills) :
              Cardinality({i \in 1..Len(heatmap) :
                              heatmap[i].skill = p.project_skills[r].skill}) = 1

\* C26: the heatmap returned by get_explanation_detail has exactly one entry
\* for each required skill of the project; the entry of a skill with a recorded
\* gap carries the recorded required and actual levels and their quotient as
\* intensity, the entry of a skill without one carries the level the project
\* requires for the skill, the candidate's level and intensity 1.
C26_HeatmapCarriesProjectLevels ==
    Explained =>
        LET match   == FindMatch(explanation[1].match_id)[1]
            p       == FindProject(match.project_id)[1]
            heatmap == explanation[1].competency_heatmap
        IN  /\ OneEntryPerRequiredSkill
            /\ \A i \in 1..Len(heatmap) :
                  /\ ProjectSkillRow(p, heatmap[i].skill) # <<>>
                  /\ heatmap[i] =
                        HeatmapEntry(match, heatmap[i].skill,
                                     ProjectSkillRow(p, heatmap[i].skill)[1].required_level)

\* C27: at every point during and after run_matching, every MatchResult that
\* has been committed, and so can be read by another request, has a rank in
\* 1..N, N the number of MatchResults of its run; none is committed with its
\* rank unassigned.
C27_CommittedRowsAreRanked ==
    \A i \in 1..Len(Committed(match_results)) :
        LET m == Committed(match_results)[i]
        IN  m.rank \in 1..Len(RunRows(m.run))

\* the requirement records of the project of the last call are within the
\* ranges the schema documents: required level 0..100, weight 0..2
RequirementsInRange ==
    \A i \in 1..Len(lastMatch[1].project.project_skills) :
        /\ lastMatch[1].project.project_skills[i].required_level \in 0..100
        /\ lastMatch[1].project.project_skills[i].weight \in 0..200

\* C28: calculate_match returns a result and raises no error for every
\* candidate and every project whose requirement records are within the
\* documented ranges, a project whose requirement weights are all 0 included.
C28_ScoringNeverRaises ==
    (lastMatch # <<>> /\ RequirementsInRange) => lastMatch[1].result.error = None

\* the last call returned, for a project with at least one required skill and
\* every requirement weight positive
ScoredOnPositiveWeights ==
    /\ Returned
    /\ lastMatch[1].project.project_skills # <<>>
    /\ \A i \in 1..Len(lastMatch[1].project.project_skills) :
          lastMatch[1].project.project_skills[i].weight > 0

\* the technical score of the last call, before it is rounded, is 100
TechnicalIsFull == lastMatch[1].locals.technical_score = RatInt(100)

NoGapRecorded == lastMatch[1].result.skill_gaps = <<>>

\* some skill is required at level 0 and the candidate has level 0 in it
LacksSkillRequiredAtZero ==
    \E i \in 1..Len(lastMatch[1].project.project_skills) :
        /\ lastMatch[1].project.project_skills[i].required_level = 0
        /\ LevelOf(lastMatch[1].project.project_skills[i].skill) = 0

=============================================================================
